---- MODULE Spec2Model ----
(***************************************************************************)
(* A model of the type-and-change-notification core of mpris_server:       *)
(*   mpris_server/mpris/metadata.py   the metadata validator and codec     *)
(*   mpris_server/base.py             the property groups and              *)
(*                                    dbus_emit_changes                    *)
(*   mpris_server/interfaces/root.py  the root interface and               *)
(*                                    get_desktop_entry                    *)
(*                                                                         *)
(* Python values are records tagged with their runtime type.  A str is a   *)
(* sequence of one-character strings, so that the string operations the    *)
(* code uses (endswith, rstrip, iteration) are computed, not assumed.      *)
(***************************************************************************)
EXTENDS Integers, Sequences, FiniteSets, TLC

VARIABLES
  glib,          \* how the installed GLib binding answers an invalid object path
  md,            \* the last get_dbus_metadata call: its argument and its outcome
  validated,     \* the last is_valid_metadata call: its arguments and its result
  props,         \* the interface's current property values (read through getattr)
  bus,           \* the PropertiesChanged announcements made so far, oldest first
  emit,          \* the last dbus_emit_changes call: its arguments and its outcome
  adapterCalls,  \* the state-changing calls that reached the root adapter, oldest first
  rootOp,        \* the last operation on the root interface and its outcome
  desktop        \* the last Root.DesktopEntry read: the adapter's path and the result

vars == <<glib, md, validated, props, bus, emit, adapterCalls, rootOp, desktop>>

(***************************************************************************)
(* Bounds of the model.                                                    *)
(***************************************************************************)
MaxBus == 2
MaxCalls == 3
MaxStem == 2

(***************************************************************************)
(* Python values.                                                          *)
(***************************************************************************)
None == [type |-> "NoneType"]
PyStr(chars) == [type |-> "str", val |-> chars]
PyInt(n) == [type |-> "int", val |-> n]
PyBool(b) == [type |-> "bool", val |-> b]
PyFloat(n) == [type |-> "float", val |-> n]
PyList(items) == [type |-> "list", val |-> items]
PyDict == [type |-> "dict", val |-> <<>>]
PyDecimal(n) == [type |-> "Decimal", val |-> n]

Range(seq) == {seq[i] : i \in 1..Len(seq)}
Min(a, b) == IF a < b THEN a ELSE b

\* isinstance(obj, types): bool is a subclass of int.
isinstance(obj, types) ==
  \/ obj.type \in types
  \/ obj.type = "bool" /\ "int" \in types

(***************************************************************************)
(* base.py: the wire type tags and their Python types.                     *)
(***************************************************************************)
DEFAULT_TRACK_ID == PyStr(<<"/", "d", "e", "f", "a", "u", "l", "t", "/", "1">>)

DbusTypes ==
  [BOOLEAN |-> "b", STRING |-> "s", DATETIME |-> "s", DOUBLE |-> "d",
   INT32 |-> "i", INT64 |-> "x", OBJ |-> "o", UINT32 |-> "u", UINT64 |-> "t",
   VARIANT |-> "v", ARRAY |-> "a", STRING_ARRAY |-> "as", OBJ_ARRAY |-> "ao"]

MprisTypes ==
  [BOOLEAN |-> "bool", DATETIME |-> "str", DOUBLE |-> "float", INT32 |-> "int",
   INT64 |-> "int", OBJ |-> "str", OBJ_ARRAY |-> "list[str]", STRING |-> "str",
   STRING_ARRAY |-> "list[str]", UINT32 |-> "int", UINT64 |-> "int",
   VARIANT |-> "object", ARRAY |-> "list", MAP |-> "dict"]

(***************************************************************************)
(* metadata.py: the tables.                                                *)
(***************************************************************************)
\* The members of the MetadataEntries enum, in definition (iteration) order.
MetadataEntries ==
  <<"mpris:trackid", "mpris:length", "mpris:artUrl", "xesam:url", "xesam:title",
    "xesam:artist", "xesam:album", "xesam:albumArtist", "xesam:discNumber",
    "xesam:trackNumber", "xesam:comment">>

METADATA_TYPES ==
  [e \in Range(MetadataEntries) |->
     CASE e = "mpris:trackid" -> DbusTypes.OBJ
       [] e = "mpris:length" -> DbusTypes.INT64
       [] e = "mpris:artUrl" -> DbusTypes.STRING
       [] e = "xesam:url" -> DbusTypes.STRING
       [] e = "xesam:title" -> DbusTypes.STRING
       [] e = "xesam:artist" -> DbusTypes.STRING_ARRAY
       [] e = "xesam:album" -> DbusTypes.STRING
       [] e = "xesam:albumArtist" -> DbusTypes.STRING_ARRAY
       [] e = "xesam:discNumber" -> DbusTypes.INT32
       [] e = "xesam:trackNumber" -> DbusTypes.INT32
       [] e = "xesam:comment" -> DbusTypes.STRING_ARRAY]

DBUS_PY_TYPES ==
  [t \in {"o", "s", "i", "x", "u", "t", "d", "b", "ao", "as"} |->
     CASE t = DbusTypes.OBJ -> MprisTypes.OBJ
       [] t = DbusTypes.STRING -> MprisTypes.STRING
       [] t = DbusTypes.INT32 -> MprisTypes.INT32
       [] t = DbusTypes.INT64 -> MprisTypes.INT64
       [] t = DbusTypes.UINT32 -> MprisTypes.UINT32
       [] t = DbusTypes.UINT64 -> MprisTypes.UINT64
       [] t = DbusTypes.DOUBLE -> MprisTypes.DOUBLE
       [] t = DbusTypes.BOOLEAN -> MprisTypes.BOOLEAN
       [] t = DbusTypes.OBJ_ARRAY -> MprisTypes.OBJ_ARRAY
       [] t = DbusTypes.STRING_ARRAY -> MprisTypes.STRING_ARRAY]

\* The fields of the MetadataObj named tuple, in declaration (iteration) order.
MetadataObjFields ==
  <<"title", "artists", "album", "album_artists", "length", "url", "art_url",
    "disc_no", "track_no", "comments", "track_id">>

\* MetadataObj(): every field None, track_id the default.
MetadataObjDefaults ==
  [f \in Range(MetadataObjFields) |->
     IF f = "track_id" THEN DEFAULT_TRACK_ID ELSE None]

(***************************************************************************)
(* types.py: is_type and get_type, as the specification describes the      *)
(* check ("the set of all declared internal runtime types"): every         *)
(* declared Python type is a type, and the runtime type of a parametrised  *)
(* list is list.                                                           *)
(***************************************************************************)
is_type(val) == val \in {"str", "int", "float", "bool", "list", "list[str]"}

get_type(val) == IF val = "list[str]" THEN "list" ELSE val

(***************************************************************************)
(* metadata.py: the validator.                                             *)
(***************************************************************************)
get_runtime_types ==
  {get_type(DBUS_PY_TYPES[t]) : t \in {u \in DOMAIN DBUS_PY_TYPES : is_type(DBUS_PY_TYPES[u])}}

DBUS_RUNTIME_TYPES == get_runtime_types

\* A variant of is_null_list that takes an empty list for a list with content.
is_null_list_NonEmpty(obj) ==
  IF isinstance(obj, {"list"})
    THEN Len(obj.val) > 0 /\ \A i \in 1..Len(obj.val) : obj.val[i] = None
    ELSE FALSE

is_null_list(obj) ==
  IF isinstance(obj, {"list"})
    THEN \A i \in 1..Len(obj.val) : obj.val[i] = None
    ELSE FALSE

is_dbus_type(obj) == isinstance(obj, DBUS_RUNTIME_TYPES)

is_valid_metadata(entry, obj) ==
  IF obj = None \/ entry \notin DOMAIN METADATA_TYPES
    THEN FALSE
    ELSE is_dbus_type(obj) /\ ~is_null_list(obj)

(***************************************************************************)
(* gi.repository.GLib.Variant, as metadata.py imports it: the constructor  *)
(* builds a value of the given signature from a Python object and raises   *)
(* TypeError when the object does not fit it.                              *)
(*   "s"        takes a str only                                           *)
(*   "o"        takes a str only; GLib rejects a str that is no object     *)
(*              path, and the binding then returns None or raises,         *)
(*              depending on its version (the variable glib)               *)
(*   "i", "x"   take a number (int, bool)                                  *)
(*   "as"       iterates its argument and takes each item as "s": a str    *)
(*              yields its characters, an int is not iterable              *)
(* A float never reaches the constructor in this model.                    *)
(***************************************************************************)
Raised(name) == [exc |-> name]

StrChars ==
  {"a", "b", "c", "d", "e", "f", "g", "h", "i", "j", "k", "l", "m", "n", "o",
   "p", "q", "r", "s", "t", "u", "v", "w", "x", "y", "z",
   "A", "B", "C", "D", "E", "F", "G", "H", "I", "J", "K", "L", "M", "N", "O",
   "P", "Q", "R", "S", "T", "U", "V", "W", "X", "Y", "Z",
   "0", "1", "2", "3", "4", "5", "6", "7", "8", "9", "_"}

\* g_variant_is_object_path: "/" or "/" separated, non-empty [A-Za-z0-9_] elements.
IsObjectPath(chars) ==
  /\ Len(chars) >= 1
  /\ chars[1] = "/"
  /\ \A i \in 1..Len(chars) : chars[i] \in StrChars \cup {"/"}
  /\ \A i \in 1..(Len(chars) - 1) : ~(chars[i] = "/" /\ chars[i + 1] = "/")
  /\ Len(chars) > 1 => chars[Len(chars)] # "/"

GVariant(format_string, value) == [sig |-> format_string, value |-> value]

Variant(format_string, value) ==
  CASE format_string = "s" ->
         IF value.type = "str" THEN GVariant(format_string, value)
                               ELSE Raised("TypeError")
    [] format_string = "o" ->
         IF value.type # "str" THEN Raised("TypeError")
         ELSE IF IsObjectPath(value.val) THEN GVariant(format_string, value)
         ELSE IF glib = "None" THEN None
         ELSE Raised("AttributeError")
    [] format_string \in {"i", "x"} /\ value.type # "float" ->
         IF isinstance(value, {"int"}) THEN GVariant(format_string, value)
                                       ELSE Raised("TypeError")
    [] format_string = "as" /\ value.type # "float" ->
         IF value.type = "list"
           THEN IF \A i \in 1..Len(value.val) : value.val[i].type = "str"
                  THEN GVariant(format_string, value)
                  ELSE Raised("TypeError")
         ELSE IF value.type = "str"
           THEN GVariant(format_string,
                         PyList([i \in 1..Len(value.val) |-> PyStr(<<value.val[i]>>)]))
         ELSE Raised("TypeError")

\* Every value of the model is a record; a raised exception is the one with an exc field.
IsRaised(v) == "exc" \in DOMAIN v

(***************************************************************************)
(* metadata.py: the codec.  A MetadataObj is the mapping of its fields; a  *)
(* raw Metadata dict is the mapping of its keys.                           *)
(***************************************************************************)
\* zip(MetadataEntries, self) pairs the i-th member of the enum with the i-th
\* field of the tuple; the pairs with a None value are dropped.
to_dict(self) ==
  LET n == Min(Len(MetadataEntries), Len(MetadataObjFields))
      kept == {i \in 1..n : self[MetadataObjFields[i]] # None}
  IN [key \in {MetadataEntries[i] : i \in kept} |->
        self[MetadataObjFields[CHOOSE i \in kept : MetadataEntries[i] = key]]]

get_dbus_var(entry, obj) == Variant(METADATA_TYPES[entry], obj)

\* The position of an entry in the enum, the order in which to_dict inserts.
EntryIndex(entry) == CHOOSE i \in 1..Len(MetadataEntries) : MetadataEntries[i] = entry

\* The comprehension builds the kept entries in turn; the first constructor
\* that raises ends the call with its exception.  (A raw mapping of the model
\* raises TypeError whichever of its entries is built first.)
get_dbus_metadata(metadata) ==
  LET items == IF metadata.cls = "MetadataObj" THEN to_dict(metadata.arg)
                                               ELSE metadata.arg
      kept == {entry \in DOMAIN items : is_valid_metadata(entry, items[entry])}
      built == [entry \in kept |-> get_dbus_var(entry, items[entry])]
      failed == {entry \in kept : IsRaised(built[entry])}
  IN IF failed = {}
       THEN [raised |-> "none", ret |-> built]
       ELSE [raised |-> built[CHOOSE entry \in failed :
                                \A other \in failed : EntryIndex(entry) <= EntryIndex(other)].exc,
             ret |-> None]

(***************************************************************************)
(* The inputs of the metadata calls.                                       *)
(***************************************************************************)
Song == PyStr(<<"S", "o", "n", "g">>)
TrackOne == PyStr(<<"/", "t", "/", "1">>)

SlotValues(f) ==
  CASE f = "title" -> {None, Song}
    [] f = "artists" -> {None, PyList(<<PyStr(<<"A">>)>>)}
    [] f = "album" -> {None, PyStr(<<"L", "P">>)}
    [] f = "album_artists" -> {None, PyList(<<PyStr(<<"B">>)>>)}
    [] f = "length" -> {None, PyInt(120000000)}
    [] f = "url" -> {None, PyStr(<<"u">>)}
    [] f = "art_url" -> {None, PyStr(<<"p">>)}
    [] f = "disc_no" -> {None, PyInt(1)}
    [] f = "track_no" -> {None, PyInt(7)}
    [] f = "comments" -> {None, PyList(<<PyStr(<<"c">>)>>)}
    [] f = "track_id" -> {DEFAULT_TRACK_ID, TrackOne}

MetadataObjs ==
  [title : SlotValues("title"), artists : SlotValues("artists"),
   album : SlotValues("album"), album_artists : SlotValues("album_artists"),
   length : SlotValues("length"), url : SlotValues("url"),
   art_url : SlotValues("art_url"), disc_no : SlotValues("disc_no"),
   track_no : SlotValues("track_no"), comments : SlotValues("comments"),
   track_id : SlotValues("track_id")]

RawKeys == {"mpris:length", "xesam:artist", "bogus:key"}

RawValues ==
  {None, PyStr(<<"a", "b", "c">>), PyInt(120000000), PyList(<<PyStr(<<"A">>)>>),
   PyList(<<>>), PyList(<<None>>), PyList(<<PyStr(<<"A">>), None>>), PyDict}

ValidatorEntries == Range(MetadataEntries) \cup {"bogus:key", "xesam:genre"}

ValidatorValues ==
  RawValues \cup {PyBool(TRUE), PyFloat(1), PyDecimal(1), PyList(<<None, None>>),
                  PyList(<<None, None, None>>), PyStr(<<>>), DEFAULT_TRACK_ID}

(***************************************************************************)
(* The metadata calls.                                                     *)
(***************************************************************************)
NoCall == [cls |-> "none", arg |-> None, raised |-> "none", ret |-> None]

MetadataCall(cls, arg) ==
  LET out == get_dbus_metadata([cls |-> cls, arg |-> arg])
  IN [cls |-> cls, arg |-> arg, raised |-> out.raised, ret |-> out.ret]

\* The codec keeps no state between calls: one call is made in each behaviour.
EncodeObj ==
  /\ md = NoCall
  /\ \E o \in MetadataObjs : md' = MetadataCall("MetadataObj", o)
  /\ UNCHANGED <<glib, validated, props, bus, emit, adapterCalls, rootOp, desktop>>

EncodeRaw ==
  /\ md = NoCall
  /\ \E ks \in SUBSET RawKeys : \E m \in [ks -> RawValues] :
       md' = MetadataCall("dict", m)
  /\ UNCHANGED <<glib, validated, props, bus, emit, adapterCalls, rootOp, desktop>>

Validate ==
  /\ \E entry \in ValidatorEntries, obj \in ValidatorValues :
       validated' = [called |-> TRUE, entry |-> entry, obj |-> obj,
                     ret |-> is_valid_metadata(entry, obj)]
  /\ UNCHANGED <<glib, md, props, bus, emit, adapterCalls, rootOp, desktop>>

(***************************************************************************)
(* base.py: the Property enum (StrEnum with auto(): each value is the      *)
(* member's name) and the property groups.                                 *)
(***************************************************************************)
Property ==
  {"ActivePlaylist", "CanControl", "CanEditTracks", "CanGoNext", "CanGoPrevious",
   "CanPause", "CanPlay", "CanQuit", "CanRaise", "CanSeek", "CanSetFullscreen",
   "DesktopEntry", "Fullscreen", "HasTrackList", "Identity", "LoopStatus",
   "MaximumRate", "Metadata", "MinimumRate", "Orderings", "PlaybackStatus",
   "PlaylistCount", "Position", "Rate", "Shuffle", "SupportedMimeTypes",
   "SupportedUriSchemes", "Tracks", "Volume"}

INTERFACE == "org.mpris.MediaPlayer2"
ROOT_INTERFACE == INTERFACE

ON_ENDED_PROPS == <<"PlaybackStatus">>
ON_VOLUME_PROPS == <<"Metadata", "Volume">>
ON_PLAYBACK_PROPS ==
  <<"CanControl", "MaximumRate", "Metadata", "MinimumRate", "PlaybackStatus", "Rate">>
ON_PLAYPAUSE_PROPS == <<"PlaybackStatus">>
ON_TITLE_PROPS == <<"Metadata">>
ON_OPTION_PROPS ==
  <<"CanGoNext", "CanGoPrevious", "CanPause", "CanPlay", "LoopStatus", "Shuffle">>
\* A variant of ON_SEEK_PROPS that leaves CanSeek out.
ON_SEEK_PROPS_PositionOnly == <<"Position">>

ON_SEEK_PROPS == <<"CanSeek", "Position">>

\* list(a set): each member once, in the set's iteration order, which Python
\* leaves unspecified; CHOOSE stands for that order.
RECURSIVE list(_)
list(set) ==
  IF set = {} THEN <<>>
  ELSE LET x == CHOOSE y \in set : TRUE
       IN <<x>> \o list(set \ {x})

\* {*a, *b, ...}: the set of the members of the unpacked lists.
SetOf(lists) == UNION {Range(lists[i]) : i \in 1..Len(lists)}

\* A variant of ON_PLAYER_PROPS that concatenates the lists instead of uniting them.
ON_PLAYER_PROPS_Concatenated ==
  ON_ENDED_PROPS \o ON_OPTION_PROPS \o ON_PLAYBACK_PROPS \o ON_PLAYPAUSE_PROPS
    \o ON_SEEK_PROPS \o ON_TITLE_PROPS \o ON_VOLUME_PROPS

ON_PLAYER_PROPS ==
  list(SetOf(<<ON_ENDED_PROPS, ON_OPTION_PROPS, ON_PLAYBACK_PROPS, ON_PLAYPAUSE_PROPS,
               ON_SEEK_PROPS, ON_TITLE_PROPS, ON_VOLUME_PROPS>>))

ON_TRACKS_PROPS == <<"CanEditTracks", "Tracks">>
ON_PLAYLIST_PROPS == <<"ActivePlaylist", "CanEditTracks", "Orderings", "PlaylistCount">>
ON_ROOT_PROPS ==
  <<"CanQuit", "CanRaise", "CanSetFullscreen", "DesktopEntry", "Fullscreen",
    "HasTrackList", "Identity", "SupportedMimeTypes", "SupportedUriSchemes">>

(***************************************************************************)
(* base.py: dbus_emit_changes.  An interface object is its INTERFACE name, *)
(* the properties its class defines (attrs) and the properties whose       *)
(* getter raises at present (faulty).                                      *)
(***************************************************************************)
\* getattr(interface, prop): the property's current value, or the exception
\* the lookup or the getter raises.
getattr(interface, prop) ==
  IF prop \notin interface.attrs THEN Raised("AttributeError")
  ELSE IF prop \in interface.faulty THEN Raised("AdapterError")
  ELSE [prop |-> prop, version |-> props[prop]]

\* interface.PropertiesChanged(interface_name, changed, invalidated)
PropertiesChanged(interface_name, changed, invalidated) ==
  [interface |-> interface_name, changed |-> changed, invalidated |-> invalidated]

\* A variant of dbus_emit_changes that announces each property on its own.
dbus_emit_changes_PerField(interface, changes) ==
  LET reads == [i \in 1..Len(changes) |-> getattr(interface, changes[i])]
      failed == {i \in 1..Len(changes) : IsRaised(reads[i])}
  IN IF failed # {}
       THEN [raised |-> reads[CHOOSE i \in failed : \A j \in failed : i <= j].exc,
             announced |-> <<>>]
       ELSE [raised |-> "none",
             announced |-> [i \in 1..Len(changes) |->
                              PropertiesChanged(interface.INTERFACE,
                                                [prop \in {changes[i]} |-> reads[i]], <<>>)]]

\* The comprehension reads each property in turn; the first read that raises
\* ends the call.  announced is the list of announcements the call made.
dbus_emit_changes(interface, changes) ==
  LET reads == [i \in 1..Len(changes) |-> getattr(interface, changes[i])]
      failed == {i \in 1..Len(changes) : IsRaised(reads[i])}
      prop_vals == [prop \in Range(changes) |->
                      reads[CHOOSE i \in 1..Len(changes) :
                              /\ changes[i] = prop
                              /\ \A j \in (i + 1)..Len(changes) : changes[j] # prop]]
  IN IF failed # {}
       THEN [raised |-> reads[CHOOSE i \in failed : \A j \in failed : i <= j].exc,
             announced |-> <<>>]
       ELSE [raised |-> "none",
             announced |-> <<PropertiesChanged(interface.INTERFACE, prop_vals, <<>>)>>]

\* The interfaces and groups the calls are made with: the root interface of
\* root.py, and an interface that defines the player properties.
RootAttrs == Range(ON_ROOT_PROPS)
PlayerAttrs == Range(ON_PLAYER_PROPS)
PLAYER_INTERFACE == "org.mpris.MediaPlayer2.Player"

EmitInterfaces ==
  {[INTERFACE |-> ROOT_INTERFACE, attrs |-> RootAttrs],
   [INTERFACE |-> PLAYER_INTERFACE, attrs |-> PlayerAttrs]}

EmitGroups ==
  {ON_ENDED_PROPS, ON_VOLUME_PROPS, ON_PLAYBACK_PROPS, ON_PLAYPAUSE_PROPS,
   ON_TITLE_PROPS, ON_OPTION_PROPS, ON_SEEK_PROPS, ON_PLAYER_PROPS, ON_ROOT_PROPS}

\* The properties whose value changes in the model.
ChangingProps == {"Position"}

EmitChanges ==
  /\ Len(bus) < MaxBus
  /\ \E i \in EmitInterfaces, changes \in EmitGroups :
       \E faulty \in {{}} \cup {{p} : p \in Range(changes)} :
         LET interface == [INTERFACE |-> i.INTERFACE, attrs |-> i.attrs, faulty |-> faulty]
             out == dbus_emit_changes(interface, changes)
         IN /\ bus' = bus \o out.announced
            /\ emit' = [called |-> TRUE, interface |-> interface, changes |-> changes,
                        raised |-> out.raised]
  /\ UNCHANGED <<glib, md, validated, props, adapterCalls, rootOp, desktop>>

\* The player's state changes under the interface.
AdapterChange ==
  /\ \E p \in ChangingProps : props' = [props EXCEPT ![p] = 1 - @]
  /\ UNCHANGED <<glib, md, validated, bus, emit, adapterCalls, rootOp, desktop>>

(***************************************************************************)
(* root.py: the Root interface.  RootDoc is the introspection descriptor   *)
(* of __doc__; RootGetters and RootSetters are the properties the class    *)
(* defines a getter and a setter for.                                      *)
(***************************************************************************)
RootDoc ==
  <<[name |-> "CanQuit", type |-> DbusTypes.BOOLEAN, access |-> "read"],
    [name |-> "CanRaise", type |-> DbusTypes.BOOLEAN, access |-> "read"],
    [name |-> "Fullscreen", type |-> DbusTypes.BOOLEAN, access |-> "readwrite"],
    [name |-> "CanSetFullscreen", type |-> DbusTypes.BOOLEAN, access |-> "read"],
    [name |-> "HasTrackList", type |-> DbusTypes.BOOLEAN, access |-> "read"],
    [name |-> "Identity", type |-> DbusTypes.STRING, access |-> "read"],
    [name |-> "DesktopEntry", type |-> DbusTypes.STRING, access |-> "read"],
    [name |-> "SupportedUriSchemes", type |-> DbusTypes.STRING_ARRAY, access |-> "read"],
    [name |-> "SupportedMimeTypes", type |-> DbusTypes.STRING_ARRAY, access |-> "read"]>>

RootGetters ==
  {"Fullscreen", "DesktopEntry", "SupportedUriSchemes", "SupportedMimeTypes",
   "Identity", "CanQuit", "CanRaise", "CanSetFullscreen", "HasTrackList"}

\* A variant of RootSetters in which Identity has a setter too.
RootSetters_WithIdentity == {"Fullscreen", "Identity"}

RootSetters == {"Fullscreen"}

\* The access the descriptor declares for a property ("none" when undeclared).
DeclaredAccess(prop) ==
  IF \E i \in 1..Len(RootDoc) : RootDoc[i].name = prop
    THEN RootDoc[CHOOSE i \in 1..Len(RootDoc) : RootDoc[i].name = prop].access
    ELSE "none"

AdapterCall(method, arg) == [method |-> method, arg |-> arg]

\* setattr(root, prop, value): the setter's call of the adapter, or the
\* AttributeError of a property that has no setter.
RootSetattr(prop, value) ==
  IF prop \in RootSetters
    THEN [raised |-> "none", calls |-> <<AdapterCall("set_fullscreen", value)>>]
    ELSE [raised |-> "AttributeError", calls |-> <<>>]

RootOp(op, prop, value, raised) ==
  [op |-> op, prop |-> prop, value |-> value, raised |-> raised]

\* A write of the Python attribute.
SetProperty ==
  /\ Len(adapterCalls) < MaxCalls
  /\ \E prop \in Range(ON_ROOT_PROPS), value \in BOOLEAN :
       LET out == RootSetattr(prop, value)
       IN /\ adapterCalls' = adapterCalls \o out.calls
          /\ rootOp' = RootOp("setattr", prop, value, out.raised)
  /\ UNCHANGED <<glib, md, validated, props, bus, emit, desktop>>

\* A write that arrives over the bus: the transport consults the descriptor
\* and hands only a write to a readwrite property on to the class.
DBusSet ==
  /\ Len(adapterCalls) < MaxCalls
  /\ \E prop \in Range(ON_ROOT_PROPS), value \in BOOLEAN :
       LET out == IF DeclaredAccess(prop) = "readwrite"
                    THEN RootSetattr(prop, value)
                    ELSE [raised |-> "NotWritable", calls |-> <<>>]
       IN /\ adapterCalls' = adapterCalls \o out.calls
          /\ rootOp' = RootOp("dbus_set", prop, value, out.raised)
  /\ UNCHANGED <<glib, md, validated, props, bus, emit, desktop>>

Raise ==
  /\ Len(adapterCalls) < MaxCalls
  /\ adapterCalls' = Append(adapterCalls, AdapterCall("set_raise", TRUE))
  /\ rootOp' = RootOp("Raise", "none", TRUE, "none")
  /\ UNCHANGED <<glib, md, validated, props, bus, emit, desktop>>

Quit ==
  /\ Len(adapterCalls) < MaxCalls
  /\ adapterCalls' = Append(adapterCalls, AdapterCall("quit", TRUE))
  /\ rootOp' = RootOp("Quit", "none", TRUE, "none")
  /\ UNCHANGED <<glib, md, validated, props, bus, emit, desktop>>

(***************************************************************************)
(* root.py: get_desktop_entry.  A path is a str or a PurePath of the       *)
(* characters given (no separator among them).                             *)
(***************************************************************************)
NO_SUFFIX == <<>>
DESKTOP_EXT == <<".", "d", "e", "s", "k", "t", "o", "p">>

\* name.endswith(suffix)
endswith(name, suffix) ==
  /\ Len(suffix) <= Len(name)
  /\ SubSeq(name, Len(name) - Len(suffix) + 1, Len(name)) = suffix

\* name.rstrip(chars): the trailing characters that are among chars are removed.
RECURSIVE rstrip(_, _)
rstrip(name, chars) ==
  IF name # <<>> /\ name[Len(name)] \in Range(chars)
    THEN rstrip(SubSeq(name, 1, Len(name) - 1), chars)
    ELSE name

\* The index of the last "." of name, 0 when there is none (rfind, one-based).
rfind_dot(name) ==
  IF \E i \in 1..Len(name) : name[i] = "."
    THEN CHOOSE i \in 1..Len(name) :
           name[i] = "." /\ \A j \in (i + 1)..Len(name) : name[j] # "."
    ELSE 0

\* PurePath(chars).with_suffix(suffix) and str() of it: "" and "." have an
\* empty name, which raises ValueError; the suffix runs from the last "."
\* unless that is the first or the last character of the name.
with_suffix(chars, suffix) ==
  IF chars = <<>> \/ chars = <<".">>
    THEN Raised("ValueError")
    ELSE LET i == rfind_dot(chars)
         IN IF 1 < i /\ i < Len(chars)
              THEN PyStr(SubSeq(chars, 1, i - 1) \o suffix)
              ELSE PyStr(chars \o suffix)

get_desktop_entry(path) ==
  LET stripped == IF path.cls = "PurePath" THEN with_suffix(path.chars, NO_SUFFIX)
                                           ELSE PyStr(path.chars)
  IN IF IsRaised(stripped) THEN stripped
     ELSE LET name == stripped.val
          IN IF endswith(name, DESKTOP_EXT)
               THEN PyStr(rstrip(name, DESKTOP_EXT))
               ELSE PyStr(name)

\* The paths the adapter returns: every stem of at most MaxStem characters and
\* three application names, each with and without the extension.
StemChars == {"a", "p", ".", "x"}

Stems ==
  UNION {[1..n -> StemChars] : n \in 0..MaxStem}
    \cup {<<"s", "p", "o", "t", "t", "e", "d">>, <<"v", "l", "c">>,
          <<"m", "p", "v", ".", "d", "e", "s", "k", "t", "o", "p">>}

DesktopPaths ==
  {[cls |-> c, chars |-> stem \o ext] :
     c \in {"str", "PurePath"}, stem \in Stems, ext \in {<<>>, DESKTOP_EXT}}

\* Root.DesktopEntry: the adapter's path, with its suffix stripped.
DesktopEntry ==
  /\ \E path \in DesktopPaths :
       desktop' = [called |-> TRUE, path |-> path, ret |-> get_desktop_entry(path)]
  /\ UNCHANGED <<glib, md, validated, props, bus, emit, adapterCalls, rootOp>>

(***************************************************************************)
(* The specifications: one per component, over the same initial state.     *)
(***************************************************************************)
Init ==
  /\ glib \in {"None", "AttributeError"}
  /\ md = NoCall
  /\ validated = [called |-> FALSE, entry |-> "", obj |-> None, ret |-> FALSE]
  /\ props = [p \in Property |-> 0]
  /\ bus = <<>>
  /\ emit = [called |-> FALSE, interface |-> [INTERFACE |-> "", attrs |-> {}, faulty |-> {}],
             changes |-> <<>>, raised |-> "none"]
  /\ adapterCalls = <<>>
  /\ rootOp = RootOp("none", "none", FALSE, "none")
  /\ desktop = [called |-> FALSE, path |-> [cls |-> "str", chars |-> <<>>], ret |-> None]

NextCodec == EncodeObj \/ EncodeRaw
NextValidator == Validate
NextNotify == EmitChanges \/ AdapterChange
NextRoot == SetProperty \/ DBusSet \/ Raise \/ Quit
NextDesktop == DesktopEntry
Next == NextCodec \/ NextValidator \/ NextNotify \/ NextRoot \/ NextDesktop

SpecCodec == Init /\ [][NextCodec]_vars
SpecValidator == Init /\ [][NextValidator]_vars
SpecNotify == Init /\ [][NextNotify]_vars
SpecRoot == Init /\ [][NextRoot]_vars
SpecDesktop == Init /\ [][NextDesktop]_vars
Spec == Init /\ [][Next]_vars

(***************************************************************************)
(* The claims.                                                             *)
(***************************************************************************)
\* The wire field each slot of a MetadataObj is named after.
WireFieldOf(f) ==
  CASE f = "title" -> "xesam:title"
    [] f = "artists" -> "xesam:artist"
    [] f = "album" -> "xesam:album"
    [] f = "album_artists" -> "xesam:albumArtist"
    [] f = "length" -> "mpris:length"
    [] f = "url" -> "xesam:url"
    [] f = "art_url" -> "mpris:artUrl"
    [] f = "disc_no" -> "xesam:discNumber"
    [] f = "track_no" -> "xesam:trackNumber"
    [] f = "comments" -> "xesam:comment"
    [] f = "track_id" -> "mpris:trackid"

\* The Python object a wire value carries (the value itself when it is none).
Carried(v) == IF "value" \in DOMAIN v THEN v.value ELSE v

\* C1: encoding a MetadataObj yields exactly the wire fields of its non-null
\* slots, each carrying the value of its own slot.
C1_SlotsMapToOwnFields ==
  md.cls = "MetadataObj" =>
    LET set == {f \in Range(MetadataObjFields) : md.arg[f] # None}
    IN /\ md.raised = "none"
       /\ DOMAIN md.ret = {WireFieldOf(f) : f \in set}
       /\ \A f \in set : Carried(md.ret[WireFieldOf(f)]) = md.arg[f]

\* C2: encoding the default MetadataObj yields exactly one entry, mpris:trackid,
\* whose value is the default path "/default/1".
C2_DefaultEncodesTrackIdOnly ==
  (md.cls = "MetadataObj" /\ md.arg = MetadataObjDefaults) =>
    /\ md.raised = "none"
    /\ DOMAIN md.ret = {"mpris:trackid"}
    /\ Carried(md.ret["mpris:trackid"]) = DEFAULT_TRACK_ID

\* C3: a dbus_emit_changes call in which the read of one property raises, the
\* other reads succeeding, returns normally and has announced the other
\* properties of the group.
C3_FailingReadStillAnnounces ==
  (/\ emit.called
   /\ emit.interface.faulty # {}
   /\ Range(emit.changes) \subseteq emit.interface.attrs) =>
    /\ emit.raised = "none"
    /\ bus # <<>>
    /\ DOMAIN bus[Len(bus)].changed = Range(emit.changes) \ emit.interface.faulty

\* C4: a dbus_emit_changes call whose reads all succeed adds exactly one
\* announcement: the interface's name, the value read for each property of
\* changes and no other key, and an empty invalidated list.
C4_OneAnnouncementPerCall ==
  [][((emit' # emit \/ bus' # bus) /\ emit'.raised = "none") =>
       /\ Len(bus') = Len(bus) + 1
       /\ SubSeq(bus', 1, Len(bus)) = bus
       /\ LET a == bus'[Len(bus')]
          IN /\ a.interface = emit'.interface.INTERFACE
             /\ DOMAIN a.changed = Range(emit'.changes)
             /\ \A p \in Range(emit'.changes) :
                  a.changed[p] = [prop |-> p, version |-> props[p]]
             /\ a.invalidated = <<>>]_vars

C4_Witness ==
  /\ emit.called
  /\ emit.raised = "none"
  /\ Len(emit.changes) > 1
  /\ Len(bus) = 2

\* C5: encoding a raw mapping never raises: the result has an entry exactly for
\* the keys whose value is valid, each the value wrapped with the key's wire
\* type, and no entry is null.
C5_RawEncodeNeverRaises ==
  md.cls = "dict" =>
    /\ md.raised = "none"
    /\ DOMAIN md.ret = {k \in DOMAIN md.arg : is_valid_metadata(k, md.arg[k])}
    /\ \A k \in DOMAIN md.ret :
         /\ md.ret[k] # None
         /\ md.ret[k] = GVariant(METADATA_TYPES[k], md.arg[k])

\* C6: is_valid_metadata(field, value) is true exactly when value is not None,
\* field is one of the 11 declared entries, value's runtime type is one of the
\* declared runtime types (so not a dict or a Decimal), and value is not a list
\* whose elements are all None (of any length).
C6_DeclaredEntries ==
  {"mpris:trackid", "mpris:length", "mpris:artUrl", "xesam:url", "xesam:title",
   "xesam:artist", "xesam:album", "xesam:albumArtist", "xesam:discNumber",
   "xesam:trackNumber", "xesam:comment"}

C6_ValidatorRules ==
  validated.called =>
    LET entry == validated.entry
        obj == validated.obj
        allNone == obj.type = "list" /\ \A i \in 1..Len(obj.val) : obj.val[i] = None
    IN /\ Cardinality(C6_DeclaredEntries) = 11
       /\ validated.ret <=>
            /\ obj # None
            /\ entry \in C6_DeclaredEntries
            /\ obj.type \in {"str", "int", "float", "bool", "list"}
            /\ ~allNone
       /\ obj.type \in {"dict", "Decimal"} => ~validated.ret
       /\ allNone => ~validated.ret

C6_Witness ==
  /\ validated.called
  /\ validated.entry = "xesam:artist"
  /\ validated.obj = PyList(<<>>)
  /\ ~validated.ret

\* C7: ON_PLAYER_PROPS is set-equal to the union of the seven player groups and
\* holds no property twice; an announcement made for it carries exactly the
\* properties of the union.
C7_SevenGroups ==
  <<ON_ENDED_PROPS, ON_VOLUME_PROPS, ON_PLAYBACK_PROPS, ON_PLAYPAUSE_PROPS,
    ON_TITLE_PROPS, ON_OPTION_PROPS, ON_SEEK_PROPS>>

C7_PlayerPropsIsUnion ==
  LET union == UNION {Range(C7_SevenGroups[i]) : i \in 1..Len(C7_SevenGroups)}
      times(p) == Cardinality({i \in 1..Len(ON_PLAYER_PROPS) : ON_PLAYER_PROPS[i] = p})
      groups(p) == Cardinality({i \in 1..Len(C7_SevenGroups) : p \in Range(C7_SevenGroups[i])})
  IN /\ Range(ON_PLAYER_PROPS) = union
     /\ \A p \in union : times(p) = 1
     /\ groups("Metadata") = 3 /\ groups("PlaybackStatus") = 3
     /\ (emit.called /\ emit.changes = ON_PLAYER_PROPS /\ emit.raised = "none") =>
          DOMAIN bus[Len(bus)].changed = union

C7_Witness ==
  /\ emit.called
  /\ emit.changes = ON_PLAYER_PROPS
  /\ emit.raised = "none"
  /\ DOMAIN bus[Len(bus)].changed = Range(ON_PLAYER_PROPS)

\* C8: ON_SEEK_PROPS is exactly {CanSeek, Position}, and a seek announcement
\* carries these two properties and only these.
C8_SeekGroupExact ==
  /\ Range(ON_SEEK_PROPS) = {"CanSeek", "Position"}
  /\ Len(ON_SEEK_PROPS) = Cardinality({"CanSeek", "Position"})
  /\ (emit.called /\ emit.changes = ON_SEEK_PROPS /\ emit.raised = "none") =>
       DOMAIN bus[Len(bus)].changed = {"CanSeek", "Position"}

C8_Witness ==
  /\ emit.called
  /\ emit.changes = ON_SEEK_PROPS
  /\ emit.raised = "none"
  /\ bus # <<>>
  /\ bus[Len(bus)].interface = PLAYER_INTERFACE

\* C9: a write of a root property reaches the adapter only when the property
\* is Fullscreen, as one set_fullscreen call with the written value; a write
\* of a read-only property is rejected and leaves the adapter untouched; and
\* the descriptor declares readwrite exactly for the properties with a setter.
C9_ReadOnly ==
  {"CanQuit", "CanRaise", "CanSetFullscreen", "HasTrackList", "Identity",
   "DesktopEntry", "SupportedUriSchemes", "SupportedMimeTypes"}

C9_OnlyFullscreenWritesReachAdapter ==
  [][/\ \A p \in C9_ReadOnly \cup {"Fullscreen"} :
          /\ DeclaredAccess(p) = (IF p = "Fullscreen" THEN "readwrite" ELSE "read")
          /\ (DeclaredAccess(p) = "readwrite") <=> (p \in RootSetters)
     /\ rootOp'.op \in {"setattr", "dbus_set"} =>
          IF rootOp'.prop = "Fullscreen"
            THEN /\ rootOp'.raised = "none"
                 /\ adapterCalls' =
                      Append(adapterCalls, AdapterCall("set_fullscreen", rootOp'.value))
            ELSE /\ rootOp'.prop \in C9_ReadOnly
                 /\ rootOp'.raised # "none"
                 /\ adapterCalls' = adapterCalls]_vars

C9_Witness ==
  /\ rootOp.op = "setattr"
  /\ rootOp.prop = "Identity"
  /\ rootOp.raised = "AttributeError"
  /\ \E i \in 1..Len(adapterCalls) : adapterCalls[i].method = "set_fullscreen"

\* C10: for a str path, get_desktop_entry returns the path without its one
\* trailing ".desktop", every character before it kept, and the path itself
\* when it does not end with ".desktop".
C10_SuffixStripped ==
  (desktop.called /\ desktop.path.cls = "str") =>
    LET chars == desktop.path.chars
        n == Len(chars) - Len(DESKTOP_EXT)
    IN desktop.ret =
         PyStr(IF n >= 0 /\ SubSeq(chars, n + 1, Len(chars)) = DESKTOP_EXT
                 THEN SubSeq(chars, 1, n)
                 ELSE chars)

====
